---- MODULE Spec2Model ----
(***************************************************************************)
(* Model of c.py: a Flask front-end over a pretrained ResNet50 classifier. *)
(*                                                                         *)
(* Numbers.  A probability is an integer number of 1/10000 (Unit = 1.0,    *)
(* MIN_CONFIDENCE = 0.40 = 4000).  A reported confidence is an integer     *)
(* number of tenths of a percent (400 = 40.0, 1000 = 100.0), so that       *)
(* round(conf * 100, 1) is a real rounding from 1/10000 to 1/1000.         *)
(*                                                                         *)
(* Images.  The bytes of an upload are abstracted to what the libraries    *)
(* make of them: bytes PIL cannot decode, bytes that decode but on which   *)
(* the forward pass raises, or bytes for which softmax(model(x)) is a      *)
(* given distribution over the 1000 classes.  A distribution is written    *)
(* sparsely: its values on Support, 0 on every other class.                *)
(***************************************************************************)
EXTENDS Integers, Sequences, FiniteSets, TLC

VARIABLES
    \* process start-up (module body of c.py)
    phase,            \* where the module body is: "try", "except", "loaded", "serving", "exited"
    launch,           \* "script" (python c.py) or "import" (a WSGI host imports c)
    model,            \* the global model: "unset", "primary" or "alternate"
    HTML_TEMPLATE,    \* the global HTML_TEMPLATE: "undefined" or the document
    imagenet_classes, \* the global label table
    tie,              \* how this build's torch.topk orders equal values
    loadLog,          \* history of the load attempts made
    \* request-handling threads (app.run(threaded=True))
    pc, req, invoked, top_probs, top_ids, i, predictions, resp,
    \* the client page (script of HTML_TEMPLATE)
    selectedFile, btnDisabled, readers, inFlight, loadingShown, previewShown,
    previewSrc, uploadAreaText, lastAlert, predictionsHtml

serverVars == <<phase, launch, model, HTML_TEMPLATE, imagenet_classes, tie, loadLog>>
threadVars == <<pc, req, invoked, top_probs, top_ids, i, predictions, resp>>
pageVars == <<selectedFile, btnDisabled, readers, inFlight, loadingShown, previewShown,
              previewSrc, uploadAreaText, lastAlert, predictionsHtml>>
vars == <<serverVars, threadVars, pageVars>>

(***************************************************************************)
(* Bounds and program constants                                            *)
(***************************************************************************)
NumThreads == 2
Threads == 1..NumThreads
MaxReaders == 2
MaxInFlight == 2

Unit == 10000
MIN_CONFIDENCE == 4000
MAX_CONFIDENCE == 10000
TopK == 50
NumClasses == 1000

(***************************************************************************)
(* The label table and the label lookup                                    *)
(***************************************************************************)
ImagenetTable ==
    ("0" :> "tench") @@ ("1" :> "goldfish") @@ ("2" :> "great white shark") @@
    ("3" :> "tiger shark") @@ ("4" :> "hammerhead") @@ ("5" :> "electric ray") @@
    ("6" :> "stingray") @@ ("7" :> "rooster") @@ ("8" :> "hen") @@ ("9" :> "ostrich") @@
    ("10" :> "brambling") @@ ("11" :> "goldfinch") @@ ("99" :> "goose") @@
    ("151" :> "Chihuahua") @@ ("152" :> "Japanese spaniel") @@ ("153" :> "Maltese dog") @@
    ("154" :> "Pekinese") @@ ("155" :> "Shih-Tzu") @@ ("156" :> "Blenheim spaniel") @@
    ("157" :> "papillon") @@ ("158" :> "toy terrier") @@ ("207" :> "golden retriever") @@
    ("208" :> "Labrador retriever") @@ ("282" :> "tiger cat") @@ ("283" :> "Persian cat") @@
    ("284" :> "Siamese cat") @@ ("291" :> "lion") @@ ("292" :> "tiger") @@
    ("293" :> "cheetah") @@ ("294" :> "brown bear") @@ ("404" :> "airliner") @@
    ("407" :> "ambulance") @@ ("429" :> "baseball") @@ ("430" :> "basketball") @@
    ("504" :> "coffee mug") @@ ("620" :> "laptop") @@ ("850" :> "television") @@
    ("858" :> "toaster") @@ ("927" :> "ice cream") @@ ("948" :> "strawberry") @@
    ("949" :> "orange") @@ ("950" :> "lemon") @@ ("962" :> "pizza")

Digit(d) ==
    CASE d = 0 -> "0" [] d = 1 -> "1" [] d = 2 -> "2" [] d = 3 -> "3" [] d = 4 -> "4"
      [] d = 5 -> "5" [] d = 6 -> "6" [] d = 7 -> "7" [] d = 8 -> "8" [] d = 9 -> "9"

\* str(n) of a non-negative int: its decimal digits, no leading zeros.
RECURSIVE str(_)
str(n) == IF n < 10 THEN Digit(n) ELSE str(n \div 10) \o Digit(n % 10)

\* A slip that drops the index from the placeholder.
ClassNameNoIndex(table, class_id) ==
    IF class_id \in DOMAIN table THEN table[class_id] ELSE "Class"

\* imagenet_classes.get(class_id, f"Class {class_id}")
ClassName(table, class_id) ==
    IF class_id \in DOMAIN table THEN table[class_id] ELSE "Class " \o class_id

(***************************************************************************)
(* Rounding, the confidence band                                           *)
(***************************************************************************)
\* round(conf * 100, 1), in tenths of a percent: nearest, ties to even.
RoundPercent(conf) ==
    LET q == conf \div 10
        r == conf % 10
    IN  IF r < 5 THEN q
        ELSE IF r > 5 THEN q + 1
        ELSE IF q % 2 = 0 THEN q ELSE q + 1

\* A slip that tests the band on the rounded percentage.
InBandRounded(conf) == 400 <= RoundPercent(conf) /\ RoundPercent(conf) <= 1000

\* A slip that makes the lower limit exclusive.
InBandStrict(conf) == MIN_CONFIDENCE < conf /\ conf <= MAX_CONFIDENCE

\* A slip that puts the lower limit at 0.30.
InBandLow(conf) == MIN_CONFIDENCE - 1000 <= conf /\ conf <= MAX_CONFIDENCE

\* MIN_CONFIDENCE <= conf <= MAX_CONFIDENCE
InBand(conf) == MIN_CONFIDENCE <= conf /\ conf <= MAX_CONFIDENCE

(***************************************************************************)
(* Images and requests                                                     *)
(***************************************************************************)
Support == {7, 282, 500, 999}
Dist(a, b, c, d) == (7 :> a) @@ (282 :> b) @@ (500 :> c) @@ (999 :> d)
NoProbs == Dist(0, 0, 0, 0)

ProbValues == {0, 4, 2000, 2500, 3300, 3400, 3995, 3996, 4000, 4005, 4375, 5000,
               5625, 5995, 6000, 6004, 6005, 9996, 10000}

\* The distributions softmax can return on Support: values summing to 1.
Distributions ==
    {f \in [Support -> ProbValues] : f[7] + f[282] + f[500] + f[999] = Unit}

GarbageImage == [kind |-> "garbage", probs |-> NoProbs]
UnrunnableImage == [kind |-> "unrunnable", probs |-> NoProbs]
GoodImage(f) == [kind |-> "image", probs |-> f]

AllImages == {GarbageImage, UnrunnableImage} \cup {GoodImage(f) : f \in Distributions}
ConcImages == {GarbageImage, UnrunnableImage,
               GoodImage(Dist(0, 5000, 5000, 0)), GoodImage(Dist(0, 3996, 6004, 0))}

NoReq == [route |-> "none", field |-> "absent", bytes |-> GarbageImage]
IndexReq == [route |-> "/", field |-> "absent", bytes |-> GarbageImage]
PredictReqs(images) ==
    {[route |-> "/predict", field |-> "absent", bytes |-> GarbageImage]}
    \cup {[route |-> "/predict", field |-> fld, bytes |-> img] :
            fld \in {"empty_name", "named"}, img \in images}
Requests(images) == {IndexReq} \cup PredictReqs(images)

NoResp == [status |-> 0]
HtmlDoc == "<!DOCTYPE html> AI Object Recognition - 40% to 100%"

(***************************************************************************)
(* softmax and torch.topk                                                  *)
(***************************************************************************)
\* probs[c]: the softmax output at class c.
Prob(img, c) == IF c \in DOMAIN img.probs THEN img.probs[c] ELSE 0

\* Whether class c comes before class d in the descending order of this build.
Before(img, t, c, d) ==
    \/ Prob(img, c) > Prob(img, d)
    \/ /\ Prob(img, c) = Prob(img, d)
       /\ IF t = "low" THEN c < d ELSE c > d

RECURSIVE SortDesc(_, _, _)
SortDesc(img, S, t) ==
    IF S = {} THEN <<>>
    ELSE LET best == CHOOSE c \in S : \A d \in S \ {c} : Before(img, t, c, d)
         IN  <<best>> \o SortDesc(img, S \ {best}, t)

\* The first n classes of probability 0, from class c on in steps of step.
RECURSIVE ZeroFill(_, _, _, _)
ZeroFill(img, c, step, n) ==
    IF n = 0 \/ c < 0 \/ c >= NumClasses THEN <<>>
    ELSE IF Prob(img, c) = 0
         THEN <<c>> \o ZeroFill(img, c + step, step, n - 1)
         ELSE ZeroFill(img, c + step, step, n)

\* torch.topk(probs, k): the ids of the k largest values, in descending order.
topk(img, k, t) ==
    LET nz == SortDesc(img, {c \in DOMAIN img.probs : img.probs[c] > 0}, t)
        zs == IF t = "low" THEN ZeroFill(img, 0, 1, k)
              ELSE ZeroFill(img, NumClasses - 1, -1, k)
    IN  SubSeq(nz \o zs, 1, k)

(***************************************************************************)
(* Initial state: the interpreter is about to run the module body          *)
(***************************************************************************)
NoThreadLocals ==
    /\ top_probs = [t \in Threads |-> <<>>]
    /\ top_ids = [t \in Threads |-> <<>>]
    /\ i = [t \in Threads |-> 0]
    /\ predictions = [t \in Threads |-> <<>>]

InitServer ==
    /\ phase = "try"
    /\ launch \in {"script", "import"}
    /\ model = "unset"
    /\ HTML_TEMPLATE = "undefined"
    /\ imagenet_classes = ImagenetTable
    /\ tie \in {"low", "high"}
    /\ loadLog = <<>>
    /\ pc = [t \in Threads |-> "idle"]
    /\ req = [t \in Threads |-> NoReq]
    /\ invoked = [t \in Threads |-> FALSE]
    /\ resp = [t \in Threads |-> NoResp]
    /\ NoThreadLocals

InitPage ==
    /\ selectedFile = "null"
    /\ btnDisabled = TRUE
    /\ readers = <<>>
    /\ inFlight = <<>>
    /\ loadingShown = FALSE
    /\ previewShown = FALSE
    /\ previewSrc = ""
    /\ uploadAreaText = "Click or Drag & Drop Image"
    /\ lastAlert = ""
    /\ predictionsHtml = ""

Init == InitServer /\ InitPage

(***************************************************************************)
(* Start-up: the module body, lines 32-42 and 102-106                      *)
(***************************************************************************)
\* try: models.resnet50(weights=...) returns.
LoadPrimaryOk ==
    /\ phase = "try"
    /\ model' = "primary"
    /\ loadLog' = Append(loadLog, <<"primary", "ok">>)
    /\ phase' = "loaded"
    /\ UNCHANGED <<launch, HTML_TEMPLATE, imagenet_classes, tie, threadVars, pageVars>>

\* try: the primary load raises; control enters the except clause.
LoadPrimaryFail ==
    /\ phase = "try"
    /\ loadLog' = Append(loadLog, <<"primary", "raised">>)
    /\ phase' = "except"
    /\ UNCHANGED <<launch, model, HTML_TEMPLATE, imagenet_classes, tie, threadVars, pageVars>>

\* except: models.resnet50(pretrained=True) returns.
LoadAlternateOk ==
    /\ phase = "except"
    /\ model' = "alternate"
    /\ loadLog' = Append(loadLog, <<"alternate", "ok">>)
    /\ phase' = "loaded"
    /\ UNCHANGED <<launch, HTML_TEMPLATE, imagenet_classes, tie, threadVars, pageVars>>

\* What the start-up would be if a failed alternate load were swallowed.
LoadAlternateFailSwallowed ==
    /\ phase = "except"
    /\ loadLog' = Append(loadLog, <<"alternate", "raised">>)
    /\ phase' = "loaded"
    /\ UNCHANGED <<launch, model, HTML_TEMPLATE, imagenet_classes, tie, threadVars, pageVars>>

\* except: the alternate load raises inside the except clause; nothing catches
\* it, the module body is abandoned and the interpreter exits.
LoadAlternateFail ==
    /\ phase = "except"
    /\ loadLog' = Append(loadLog, <<"alternate", "raised">>)
    /\ phase' = "exited"
    /\ UNCHANGED <<launch, model, HTML_TEMPLATE, imagenet_classes, tie, threadVars, pageVars>>

\* python c.py: __name__ == '__main__', app.run(...) is entered at line 104 and
\* blocks there; the assignment of HTML_TEMPLATE at line 106 has not run.
RunAsScript ==
    /\ phase = "loaded"
    /\ launch = "script"
    /\ phase' = "serving"
    /\ UNCHANGED <<launch, model, HTML_TEMPLATE, imagenet_classes, tie, loadLog,
                   threadVars, pageVars>>

\* import c: the __main__ block is skipped, line 106 assigns HTML_TEMPLATE, and
\* the importing host serves app.
ImportModule ==
    /\ phase = "loaded"
    /\ launch = "import"
    /\ HTML_TEMPLATE' = HtmlDoc
    /\ phase' = "serving"
    /\ UNCHANGED <<launch, model, imagenet_classes, tie, loadLog, threadVars, pageVars>>

Startup ==
    \/ LoadPrimaryOk
    \/ LoadPrimaryFail
    \/ LoadAlternateOk
    \/ LoadAlternateFail
    \/ RunAsScript
    \/ ImportModule

(***************************************************************************)
(* Responses                                                               *)
(***************************************************************************)
\* A slip that reports a failure by an HTTP error status.
AbortResponse(msg) == [status |-> 500, success |-> FALSE, error |-> msg]

\* jsonify({'success': False, 'error': msg})
ErrorResponse(msg) == [status |-> 200, success |-> FALSE, error |-> msg]

\* jsonify({'success': True, 'predictions': preds})
SuccessResponse(preds) == [status |-> 200, success |-> TRUE, predictions |-> preds]

\* Flask's answer to an exception no handler catches (debug=False).
InternalServerError == [status |-> 500, body |-> "Internal Server Error"]

\* render_template_string(HTML_TEMPLATE) once the name is bound.
PageResponse(doc) == [status |-> 200, body |-> doc]

\* A slip that lets an empty filename through.
EmptyFilenameIgnored(r) == FALSE

\* file.filename == ''
EmptyFilename(r) == r.field = "empty_name"

(***************************************************************************)
(* Request handling: one thread per request                                *)
(***************************************************************************)
Respond(t, r) ==
    /\ resp' = [resp EXCEPT ![t] = r]
    /\ pc' = [pc EXCEPT ![t] = "done"]

\* A request arrives and Flask hands it to thread t.
Receive(t, rs) ==
    /\ phase = "serving"
    /\ pc[t] = "idle"
    /\ \E r \in rs : req' = [req EXCEPT ![t] = r]
    /\ pc' = [pc EXCEPT ![t] = "recv"]
    /\ UNCHANGED <<serverVars, invoked, top_probs, top_ids, i, predictions, resp, pageVars>>

\* index(): the global HTML_TEMPLATE is looked up when the view runs.
index(t) ==
    /\ pc[t] = "recv"
    /\ req[t].route = "/"
    /\ Respond(t, IF HTML_TEMPLATE = "undefined" THEN InternalServerError
                  ELSE PageResponse(HTML_TEMPLATE))
    /\ UNCHANGED <<serverVars, req, invoked, top_probs, top_ids, i, predictions, pageVars>>

\* predict(), lines 87-96: the two checks, then file.read() and the call.
predict(t) ==
    /\ pc[t] = "recv"
    /\ req[t].route = "/predict"
    /\ IF req[t].field = "absent"
       THEN /\ Respond(t, ErrorResponse("No file uploaded"))
            /\ UNCHANGED invoked
       ELSE IF EmptyFilename(req[t])
       THEN /\ Respond(t, ErrorResponse("No file selected"))
            /\ UNCHANGED invoked
       ELSE /\ pc' = [pc EXCEPT ![t] = "open"]
            /\ invoked' = [invoked EXCEPT ![t] = TRUE]
            /\ UNCHANGED resp
    /\ UNCHANGED <<serverVars, req, top_probs, top_ids, i, predictions, pageVars>>

\* predict_image, lines 54-55: decode and preprocess.  A failure is re-raised
\* as Exception("Error: ...") at line 79 and answered at line 100.
predict_image_open(t) ==
    /\ pc[t] = "open"
    /\ IF req[t].bytes.kind = "garbage"
       THEN Respond(t, ErrorResponse("Error: cannot identify image file"))
       ELSE /\ pc' = [pc EXCEPT ![t] = "forward"]
            /\ UNCHANGED resp
    /\ UNCHANGED <<serverVars, req, invoked, top_probs, top_ids, i, predictions, pageVars>>

\* predict_image, lines 57-63: forward pass, softmax, topk, predictions = [].
predict_image_forward(t) ==
    /\ pc[t] = "forward"
    /\ IF model = "unset"
       THEN /\ Respond(t, ErrorResponse("Error: name 'model' is not defined"))
            /\ UNCHANGED <<top_probs, top_ids, i, predictions>>
       ELSE IF req[t].bytes.kind = "unrunnable"
       THEN /\ Respond(t, ErrorResponse("Error: forward pass failed"))
            /\ UNCHANGED <<top_probs, top_ids, i, predictions>>
       ELSE /\ top_ids' = [top_ids EXCEPT ![t] = topk(req[t].bytes, TopK, tie)]
            /\ top_probs' = [top_probs EXCEPT ![t] =
                               [k \in 1..Len(top_ids'[t]) |->
                                    Prob(req[t].bytes, top_ids'[t][k])]]
            /\ predictions' = [predictions EXCEPT ![t] = <<>>]
            /\ i' = [i EXCEPT ![t] = 1]
            /\ pc' = [pc EXCEPT ![t] = "loop"]
            /\ UNCHANGED resp
    /\ UNCHANGED <<serverVars, req, invoked, pageVars>>

\* What one iteration would be if it memoised placeholders in the shared table.
predict_image_loop_memo(t) ==
    /\ pc[t] = "loop"
    /\ IF i[t] > Len(top_probs[t])
       THEN /\ pc' = [pc EXCEPT ![t] = "return"]
            /\ UNCHANGED <<i, predictions, imagenet_classes>>
       ELSE LET conf == top_probs[t][i[t]]
                class_id == str(top_ids[t][i[t]])
            IN  IF InBand(conf)
                THEN /\ imagenet_classes' =
                            IF class_id \in DOMAIN imagenet_classes THEN imagenet_classes
                            ELSE imagenet_classes @@ (class_id :> "Class " \o str(i[t]))
                     /\ predictions' = [predictions EXCEPT ![t] =
                            Append(@, [class |-> imagenet_classes'[class_id],
                                       confidence |-> RoundPercent(conf)])]
                     /\ i' = [i EXCEPT ![t] = @ + 1]
                     /\ UNCHANGED pc
                ELSE /\ pc' = [pc EXCEPT ![t] = "return"]
                     /\ UNCHANGED <<i, predictions, imagenet_classes>>
    /\ UNCHANGED <<phase, launch, model, HTML_TEMPLATE, tie, loadLog,
                   req, invoked, top_probs, top_ids, resp, pageVars>>

\* predict_image, lines 64-75: one iteration of the for loop (i is 1-based here).
predict_image_loop(t) ==
    /\ pc[t] = "loop"
    /\ IF i[t] > Len(top_probs[t])
       THEN /\ pc' = [pc EXCEPT ![t] = "return"]
            /\ UNCHANGED <<i, predictions>>
       ELSE LET conf == top_probs[t][i[t]]
                class_id == str(top_ids[t][i[t]])
            IN  IF InBand(conf)
                THEN /\ predictions' = [predictions EXCEPT ![t] =
                            Append(@, [class |-> ClassName(imagenet_classes, class_id),
                                       confidence |-> RoundPercent(conf)])]
                     /\ i' = [i EXCEPT ![t] = @ + 1]
                     /\ UNCHANGED pc
                ELSE IF conf < MIN_CONFIDENCE
                THEN /\ pc' = [pc EXCEPT ![t] = "return"]
                     /\ UNCHANGED <<i, predictions>>
                ELSE /\ i' = [i EXCEPT ![t] = @ + 1]
                     /\ UNCHANGED <<pc, predictions>>
    /\ UNCHANGED <<serverVars, req, invoked, top_probs, top_ids, resp, pageVars>>

\* predict_image line 77 and predict line 98.
predict_return(t) ==
    /\ pc[t] = "return"
    /\ Respond(t, SuccessResponse(predictions[t]))
    /\ UNCHANGED <<serverVars, req, invoked, top_probs, top_ids, i, predictions, pageVars>>

\* The response is sent; the thread and its locals are gone.
Finish(t) ==
    /\ pc[t] = "done"
    /\ pc' = [pc EXCEPT ![t] = "idle"]
    /\ req' = [req EXCEPT ![t] = NoReq]
    /\ invoked' = [invoked EXCEPT ![t] = FALSE]
    /\ resp' = [resp EXCEPT ![t] = NoResp]
    /\ top_probs' = [top_probs EXCEPT ![t] = <<>>]
    /\ top_ids' = [top_ids EXCEPT ![t] = <<>>]
    /\ i' = [i EXCEPT ![t] = 0]
    /\ predictions' = [predictions EXCEPT ![t] = <<>>]
    /\ UNCHANGED <<serverVars, pageVars>>

Handle(t) ==
    \/ index(t)
    \/ predict(t)
    \/ predict_image_open(t)
    \/ predict_image_forward(t)
    \/ predict_image_loop(t)
    \/ predict_return(t)
    \/ Finish(t)

\* The threaded server: any number of requests in progress, steps interleaved.
Next ==
    \/ Startup
    \/ \E t \in Threads : Receive(t, Requests(ConcImages))
    \/ \E t \in Threads : Handle(t)

Spec == Init /\ [][Next]_vars

\* One request at a time, over every image of the input domain.
NextOne ==
    \/ Startup
    \/ Receive(1, Requests(AllImages))
    \/ Handle(1)

SpecOne == Init /\ [][NextOne]_vars

(***************************************************************************)
(* The client page: the script of HTML_TEMPLATE, lines 402-520.  One       *)
(* action per event-loop task; a task runs to completion.                  *)
(***************************************************************************)
Files == {"cat.png", "dog.jpg", "notes.txt"}

\* file.type.startsWith('image/')
IsImageType(f) == f # "notes.txt"

\* What the awaited fetch and response.json() can deliver to predictImage.
Outcomes == {"predictions", "no_predictions", "failure", "rejected"}

RemoveAt(s, k) == SubSeq(s, 1, k - 1) \o SubSeq(s, k + 1, Len(s))

\* The page as loaded from a serving process that has HTML_TEMPLATE.
InitLoadedPage ==
    /\ phase = "serving"
    /\ launch = "import"
    /\ model = "primary"
    /\ HTML_TEMPLATE = HtmlDoc
    /\ imagenet_classes = ImagenetTable
    /\ tie = "low"
    /\ loadLog = <<<<"primary", "ok">>>>
    /\ pc = [t \in Threads |-> "idle"]
    /\ req = [t \in Threads |-> NoReq]
    /\ invoked = [t \in Threads |-> FALSE]
    /\ resp = [t \in Threads |-> NoResp]
    /\ NoThreadLocals
    /\ InitPage

\* handleFile(file): a drop or a change of the file input.
handleFile(f) ==
    /\ IF ~IsImageType(f)
       THEN /\ lastAlert' = "Please upload an image file!"
            /\ UNCHANGED <<selectedFile, readers>>
       ELSE /\ Len(readers) < MaxReaders
            /\ selectedFile' = f
            /\ readers' = Append(readers, f)
            /\ UNCHANGED lastAlert
    /\ UNCHANGED <<btnDisabled, inFlight, loadingShown, previewShown, previewSrc,
                   uploadAreaText, predictionsHtml, serverVars, threadVars>>

\* reader.onload of the k-th pending FileReader.
readerOnload(k) ==
    /\ k \in 1..Len(readers)
    /\ previewSrc' = "data:" \o readers[k]
    /\ uploadAreaText' = "Image Ready! " \o readers[k]
    /\ btnDisabled' = FALSE
    /\ readers' = RemoveAt(readers, k)
    /\ UNCHANGED <<selectedFile, inFlight, loadingShown, previewShown, lastAlert,
                   predictionsHtml, serverVars, threadVars>>

\* predictImage() up to its first await: a click on the enabled Predict button.
predictImage ==
    /\ ~btnDisabled
    /\ IF selectedFile = "null"
       THEN UNCHANGED <<loadingShown, previewShown, btnDisabled, inFlight>>
       ELSE /\ Len(inFlight) < MaxInFlight
            /\ loadingShown' = TRUE
            /\ previewShown' = FALSE
            /\ btnDisabled' = TRUE
            /\ inFlight' = Append(inFlight, selectedFile)
    /\ UNCHANGED <<selectedFile, readers, previewSrc, uploadAreaText, lastAlert,
                   predictionsHtml, serverVars, threadVars>>

\* predictImage() from the await on: the k-th request in flight settles.
predictImageResume(k, outcome) ==
    /\ k \in 1..Len(inFlight)
    /\ inFlight' = RemoveAt(inFlight, k)
    /\ CASE outcome = "predictions" ->
              /\ predictionsHtml' = "prediction-item"
              /\ previewShown' = TRUE
              /\ UNCHANGED lastAlert
         [] outcome = "no_predictions" ->
              /\ predictionsHtml' = "No objects detected above 40% confidence"
              /\ previewShown' = TRUE
              /\ UNCHANGED lastAlert
         [] outcome = "failure" ->
              /\ lastAlert' = "Error: "
              /\ UNCHANGED <<predictionsHtml, previewShown>>
         [] outcome = "rejected" ->
              /\ lastAlert' = "Prediction failed: "
              /\ UNCHANGED <<predictionsHtml, previewShown>>
    /\ loadingShown' = FALSE
    /\ btnDisabled' = FALSE
    /\ UNCHANGED <<selectedFile, readers, previewSrc, uploadAreaText,
                   serverVars, threadVars>>

\* resetApp(): a click on Reset.
resetApp ==
    /\ selectedFile' = "null"
    /\ previewSrc' = ""
    /\ previewShown' = FALSE
    /\ loadingShown' = FALSE
    /\ btnDisabled' = TRUE
    /\ uploadAreaText' = "Click or Drag & Drop Image"
    /\ UNCHANGED <<readers, inFlight, lastAlert, predictionsHtml, serverVars, threadVars>>

NextPage ==
    \/ \E f \in Files : handleFile(f)
    \/ \E k \in 1..MaxReaders : readerOnload(k)
    \/ predictImage
    \/ \E k \in 1..MaxInFlight, outcome \in Outcomes : predictImageResume(k, outcome)
    \/ resetApp

SpecPage == InitLoadedPage /\ [][NextPage]_vars

(***************************************************************************)
(* Properties                                                              *)
(***************************************************************************)
\* Thread t has answered a POST /predict that carried a named file.
AnsweredFile(t) ==
    pc[t] = "done" /\ req[t].route = "/predict" /\ req[t].field = "named"

\* Thread t has answered with the success shape.
Succeeded(t) == AnsweredFile(t) /\ "predictions" \in DOMAIN resp[t]

\* C1: every entry of a returned list has a confidence c with 40.0 <= c <= 100.0,
\* c is the probability of its class times 100 rounded to one decimal place (it
\* is within 0.05 of it), and that probability is at least 0.40: an entry below
\* 0.40 is not returned even when it would round to 40.0.
C1_ConfidenceInBand ==
    \A t \in Threads :
        Succeeded(t) =>
            \A k \in 1..Len(resp[t].predictions) :
                LET c == resp[t].predictions[k].confidence
                    p == top_probs[t][k]
                IN  /\ 400 <= c /\ c <= 1000
                    /\ 10 * c - p \in -5..5
                    /\ p >= 4000

\* C1 witness: a list was returned for an image one of whose classes has
\* probability 0.3996, which rounds to 40.0, and the list has the entry 60.0 only.
C1_Witness ==
    \E t \in Threads :
        /\ Succeeded(t)
        /\ \E c \in Support : req[t].bytes.probs[c] = 3996
        /\ Len(resp[t].predictions) = 1
        /\ resp[t].predictions[1].confidence = 600

\* The local lists of thread t are the 50 largest probabilities of its image in
\* descending order, with the classes they belong to.
IsDescendingTop(t) ==
    /\ Len(top_ids[t]) = TopK /\ Len(top_probs[t]) = TopK
    /\ \A k \in 1..TopK : top_probs[t][k] = Prob(req[t].bytes, top_ids[t][k])
    /\ \A k \in 1..(TopK - 1) : top_probs[t][k] >= top_probs[t][k + 1]
    /\ \A j, k \in 1..TopK : j # k => top_ids[t][j] # top_ids[t][k]
    /\ \A c \in 0..(NumClasses - 1) :
           (\A k \in 1..TopK : top_ids[t][k] # c) =>
               Prob(req[t].bytes, c) <= top_probs[t][TopK]

\* C2: the returned list is, in order, the entries of the descending top-50 list
\* before the first one below 0.40; its confidences are non-increasing; it is
\* empty when the top probability is below 0.40.
C2_LongestPrefix ==
    \A t \in Threads :
        Succeeded(t) =>
            LET out == resp[t].predictions
                n == Len(out)
            IN  /\ IsDescendingTop(t)
                /\ n <= TopK
                /\ \A k \in 1..n : top_probs[t][k] >= 4000
                /\ n < TopK => top_probs[t][n + 1] < 4000
                /\ \A k \in 1..n :
                       out[k] = [class |-> ClassName(ImagenetTable, str(top_ids[t][k])),
                                 confidence |-> RoundPercent(top_probs[t][k])]
                /\ \A k \in 1..(n - 1) : out[k].confidence >= out[k + 1].confidence
                /\ top_probs[t][1] < 4000 => n = 0

\* C2 witness: a list of one entry was returned, cut before a second class of
\* positive probability below 0.40.
C2_Witness ==
    \E t \in Threads :
        /\ Succeeded(t)
        /\ Len(resp[t].predictions) = 1
        /\ top_probs[t][2] > 0 /\ top_probs[t][2] < 4000

\* C2 witness of the empty case is part of the same runs: the top probability
\* is below 0.40 and the list is empty.
C2_WitnessEmpty ==
    \E t \in Threads :
        Succeeded(t) /\ top_probs[t][1] = 3400 /\ resp[t].predictions = <<>>

\* C3: GET / is answered with the fixed HTML document on every request the
\* server handles, however the program was started.
C3_IndexAlwaysHtml ==
    \A t \in Threads :
        (pc[t] = "done" /\ req[t].route = "/") => resp[t] = PageResponse(HtmlDoc)

\* C4: without a file field the answer is {success: false, error: "No file
\* uploaded"}, with an empty filename {success: false, error: "No file
\* selected"}, both HTTP 200, and predict_image is not invoked.
C4_UploadChecks ==
    \A t \in Threads :
        (pc[t] = "done" /\ req[t].route = "/predict") =>
            /\ req[t].field = "absent" =>
                   /\ resp[t] = [status |-> 200, success |-> FALSE,
                                 error |-> "No file uploaded"]
                   /\ ~invoked[t] /\ top_ids[t] = <<>>
            /\ req[t].field = "empty_name" =>
                   /\ resp[t] = [status |-> 200, success |-> FALSE,
                                 error |-> "No file selected"]
                   /\ ~invoked[t] /\ top_ids[t] = <<>>

\* C4 witness: a request with an empty filename, carrying a decodable image,
\* has been answered.
C4_Witness ==
    \E t \in Threads :
        /\ pc[t] = "done" /\ req[t].route = "/predict"
        /\ req[t].field = "empty_name" /\ req[t].bytes.kind = "image"

\* C5: a request that carries a file is answered HTTP 200 with exactly one of
\* two shapes: success=false with a message and no predictions when decoding or
\* inference raised, success=true with the whole list predict_image built
\* otherwise.
C5_OneOfTwoShapes ==
    \A t \in Threads :
        AnsweredFile(t) =>
            /\ resp[t].status = 200
            /\ IF req[t].bytes.kind \in {"garbage", "unrunnable"}
               THEN /\ DOMAIN resp[t] = {"status", "success", "error"}
                    /\ resp[t].success = FALSE
                    /\ resp[t].error # ""
                    /\ predictions[t] = <<>>
               ELSE /\ DOMAIN resp[t] = {"status", "success", "predictions"}
                    /\ resp[t].success = TRUE
                    /\ resp[t].predictions = predictions[t]
                    /\ Len(resp[t].predictions) =
                           Cardinality({k \in 1..TopK : top_probs[t][k] >= 4000})

\* C5 witness: the forward pass raised on a decoded image and the request has
\* been answered.
C5_Witness ==
    \E t \in Threads : AnsweredFile(t) /\ req[t].bytes.kind = "unrunnable"

\* Any two requests answered at the same time for the same upload have the same
\* answer.
SameRequestSameResponse ==
    \A t, u \in Threads :
        (pc[t] = "done" /\ pc[u] = "done" /\ req[t] = req[u]) => resp[t] = resp[u]

\* C6: under every interleaving of the handlers' steps a response depends on
\* its own request only, and no step taken while serving writes the model, the
\* label table or any other global.
C6_HandlersShareNothing ==
    [][/\ SameRequestSameResponse'
       /\ phase = "serving" =>
              UNCHANGED <<model, imagenet_classes, HTML_TEMPLATE, tie, phase>>]_vars

\* C6 witness: two threads have answered the same image, in which two classes
\* tie at 0.50, while running at the same time.
C6_Witness ==
    \E t, u \in Threads :
        /\ t # u /\ Succeeded(t) /\ Succeeded(u)
        /\ req[t] = req[u]
        /\ Len(resp[t].predictions) = 2

BothLoadsFailed == loadLog = <<<<"primary", "raised">>, <<"alternate", "raised">>>>

\* C7 as claimed: when both loads fail the process still starts.
C7_StartsWithoutModel == BothLoadsFailed => phase # "exited"

\* C7 as amended: the primary load comes first and the alternate one only after
\* the primary raised; when both fail the process ends in the module body, with
\* no model and before any request is taken; a serving process has a model.
C7_LoadOrder ==
    /\ loadLog \in {<<>>,
                    <<<<"primary", "ok">>>>,
                    <<<<"primary", "raised">>>>,
                    <<<<"primary", "raised">>, <<"alternate", "ok">>>>,
                    <<<<"primary", "raised">>, <<"alternate", "raised">>>>}
    /\ BothLoadsFailed =>
           /\ phase = "exited"
           /\ model = "unset"
           /\ \A t \in Threads : pc[t] = "idle"
    /\ phase = "serving" => model \in {"primary", "alternate"}
    /\ model = "alternate" => loadLog[1] = <<"primary", "raised">>

\* C7 witness: both loads have failed.
C7_Witness == BothLoadsFailed /\ phase = "exited"

\* The class indices the label table has an entry for.
MappedIds ==
    (0..11) \cup {99} \cup (151..158) \cup {207, 208} \cup (282..284) \cup (291..294)
    \cup {404, 407, 429, 430, 504, 620, 850, 858, 927, 948, 949, 950, 962}

\* The lookup in the table the program starts with, over every class index.
LookupOverAllClasses ==
    \A c \in 0..(NumClasses - 1) :
        LET name == ClassName(ImagenetTable, str(c))
        IN  IF c \in MappedIds
            THEN name = ImagenetTable[str(c)] /\ name # "Class " \o str(c)
            ELSE name = "Class " \o str(c)

\* C8: the label emitted for class i is the table's entry for the string form
\* of i when there is one (282 -> "tiger cat") and "Class i" otherwise
\* (500 -> "Class 500"), for the entries emitted and for every i in 0..999; no
\* request changes the table.
C8_Labels ==
    /\ imagenet_classes = ImagenetTable
    /\ \A t \in Threads :
           \A k \in 1..Len(predictions[t]) :
               LET id == top_ids[t][k]
                   name == predictions[t][k].class
               IN  /\ id = 7 => name = "rooster"
                   /\ id = 282 => name = "tiger cat"
                   /\ id = 500 => name = "Class 500"
                   /\ id = 999 => name = "Class 999"
    /\ LookupOverAllClasses

\* C8 witness: a list with a mapped and an unmapped class has been returned.
C8_Witness ==
    \E t \in Threads :
        /\ Succeeded(t)
        /\ \E j, k \in 1..Len(resp[t].predictions) :
               /\ resp[t].predictions[j].class = "tiger cat"
               /\ resp[t].predictions[k].class = "Class 500"

\* C9: a returned list has at most 2 entries, and its classes are exactly the
\* classes, among all 1000, whose probability is in [0.40, 1.00]: the cut at 50
\* excludes none of them.
C9_AtMostTwo ==
    \A t \in Threads :
        Succeeded(t) =>
            LET out == resp[t].predictions
                band == {c \in 0..(NumClasses - 1) :
                            /\ Prob(req[t].bytes, c) >= 4000
                            /\ Prob(req[t].bytes, c) <= 10000}
            IN  /\ Len(out) <= 2
                /\ {top_ids[t][k] : k \in 1..Len(out)} = band
                /\ Cardinality(band) = Len(out)

\* C9 witness: two classes at 0.40 and a third at 0.20; two entries returned.
C9_Witness ==
    \E t \in Threads :
        /\ Succeeded(t)
        /\ Len(resp[t].predictions) = 2
        /\ resp[t].predictions[2].confidence = 400

\* C10: the Predict button is disabled whenever a request of the page is in
\* flight, so at most one request is in flight.
C10_OneRequestInFlight ==
    /\ Len(inFlight) > 0 => btnDisabled
    /\ Len(inFlight) <= 1

====
